---------------------------- MODULE Spec2Model ----------------------------
(***************************************************************************)
(* Conversions between Uint<BITS, LIMBS> and the native integer and float  *)
(* types (src/src/from.rs).                                                *)
(*                                                                         *)
(* Representation.  A machine word is the set of the positions of its 1    *)
(* bits: the u64 5 is {0, 2}, u64::MAX is 0..63.  The number a word        *)
(* stands for is the sum of 2^i over its members, so x & y is x \cap y,    *)
(* x | y is x \cup y, x mod 2^w is {i \in x : i < w} and x < 2^w says that *)
(* every member of x is below w.  Words keep their width: every operation  *)
(* on a u64 drops the positions >= 64.  A Uint is its array of limbs, a    *)
(* sequence of LIMBS u64 words, least significant first.                   *)
(***************************************************************************)
EXTENDS Integers, Sequences, FiniteSets, TLC

VARIABLES src, mid, dst, op, out

vars == <<src, mid, dst, op, out>>

-----------------------------------------------------------------------------
(* Bounds of the input space.                                              *)

\* the largest small number placed at each probed bit position
MaxMant == 3

\* native integers 0..MaxSmall are all drawn
MaxSmall == 4

-----------------------------------------------------------------------------
(* Words as sets of bit positions.                                         *)

RECURSIVE Pow2(_)
Pow2(n) == IF n = 0 THEN 1 ELSE 2 * Pow2(n - 1)

\* the word of a number below 2^30
IntBits(a) == {i \in 0..29 : (a \div Pow2(i)) % 2 = 1}

RECURSIVE BitsInt(_)
\* the number of a word below 2^30
BitsInt(S) ==
    IF S = {} THEN 0
    ELSE LET i == CHOOSE j \in S : TRUE IN Pow2(i) + BitsInt(S \ {i})

\* x mod 2^w
Low(x, w) == {i \in x : i < w}

\* 2^w - 1
Ones(w) == 0..(w - 1)

\* x << n and x >> n on unbounded words
Shl(x, n) == {i + n : i \in x}
Shr(x, n) == {i - n : i \in {j \in x : j >= n}}

\* x > y and x <= y as numbers
Gt(x, y) == \E i \in x \ y : \A j \in y \ x : j < i
Le(x, y) == ~Gt(x, y)

\* x + 1 on unbounded words: the lowest run of ones is cleared, the next bit set
Inc(x) ==
    LET k == CHOOSE j \in 0..(Cardinality(x)) : j \notin x /\ \A i \in 0..(j - 1) : i \in x
    IN  (x \ Ones(k)) \cup {k}

\* x - 1 on unbounded words, x nonzero
Dec(x) ==
    LET k == CHOOSE j \in x : \A i \in x : j <= i
    IN  (x \ {k}) \cup Ones(k)

U64_BITS == 64

\* u64 arithmetic: results are reduced mod 2^64
u64_shl(x, n) == Low(Shl(x, n), U64_BITS)
u64_wrapping_add1(x) == Low(Inc(x), U64_BITS)
u64_not(x) == Ones(U64_BITS) \ x


-----------------------------------------------------------------------------
(* The Uint<BITS, LIMBS> collaborator surface: limb array, MASK, ZERO,     *)
(* MAX, from_limbs, shifts.                                                *)

\* LIMBS = ceil(BITS / 64)
nlimbs(BITS) == (BITS + 63) \div 64

\* the mask of the top limb; 0 at BITS = 0
MASK(BITS) ==
    IF BITS = 0 THEN {}
    ELSE IF BITS % 64 = 0 THEN Ones(64) ELSE Ones(BITS % 64)

\* the number held by a limb array
Value(limbs) == UNION {Shl(limbs[i], 64 * (i - 1)) : i \in 1..Len(limbs)}

\* the low n limbs of a number
ToLimbs(x, n) == [i \in 1..n |-> Shr(Low(x, 64 * i), 64 * (i - 1))]

ZERO(BITS) == [i \in 1..nlimbs(BITS) |-> {}]

MAX(BITS) == [i \in 1..nlimbs(BITS) |-> IF i = nlimbs(BITS) THEN MASK(BITS) ELSE Ones(64)]

ONE(BITS) == ToLimbs(Low({0}, BITS), nlimbs(BITS))

\* construction from a full limb sequence
from_limbs(limbs) == limbs

is_zero(limbs) == Value(limbs) = {}

\* the number of bits needed to write the value: the top nonzero limb and
\* the highest bit set in it
bit_len(limbs) ==
    IF \A i \in 1..Len(limbs) : limbs[i] = {} THEN 0
    ELSE LET top == CHOOSE i \in 1..Len(limbs) :
                        limbs[i] # {} /\ \A j \in (i + 1)..Len(limbs) : limbs[j] = {}
             hi == CHOOSE b \in limbs[top] : \A c \in limbs[top] : c <= b
         IN  64 * (top - 1) + hi + 1

leading_zeros(BITS, limbs) == BITS - bit_len(limbs)

\* self << n and self >> n: bits shifted beyond BITS are lost
uint_shl(BITS, limbs, n) == ToLimbs(Low(Shl(Value(limbs), n), BITS), nlimbs(BITS))
uint_shr(BITS, limbs, n) == ToLimbs(Shr(Value(limbs), n), nlimbs(BITS))

uint_and(a, b) == [i \in 1..Len(a) |-> a[i] \cap b[i]]

\* a - b for a >= b > 0 with b = ONE: the only subtraction the conversions use
uint_sub_one(BITS, a) == ToLimbs(Low(Dec(Value(a)), BITS), nlimbs(BITS))

\* (result, overflow) of reading a limb slice into a Uint<BITS>: min(len, LIMBS)
\* limbs are copied and zero-extended; overflow when a limb beyond LIMBS is
\* nonzero or the top copied limb exceeds MASK, and the result is masked
overflowing_from_limbs_slice(BITS, slice) ==
    LET LIMBS == nlimbs(BITS)
    IN  IF Len(slice) < LIMBS
        THEN [n |-> [i \in 1..LIMBS |-> IF i <= Len(slice) THEN slice[i] ELSE {}],
              overflow |-> FALSE]
        ELSE LET head == [i \in 1..LIMBS |-> slice[i]]
                 tail_nonzero == \E i \in (LIMBS + 1)..Len(slice) : slice[i] # {}
             IN  IF LIMBS > 0
                 THEN [n |-> [head EXCEPT ![LIMBS] = head[LIMBS] \cap MASK(BITS)],
                       overflow |-> tail_nonzero \/ Gt(head[LIMBS], MASK(BITS))]
                 ELSE [n |-> head, overflow |-> tail_nonzero]

-----------------------------------------------------------------------------
(* ToUintError and FromUintError, and the results of the conversions.      *)

Ok(n) == [tag |-> "Ok", val |-> n]
ValueTooLarge(bits, n) == [tag |-> "ValueTooLarge", bits |-> bits, val |-> n]
ValueNegative(bits, n) == [tag |-> "ValueNegative", bits |-> bits, val |-> n]
NotANumber(bits) == [tag |-> "NotANumber", bits |-> bits]
Overflow(bits, n, max) == [tag |-> "Overflow", bits |-> bits, val |-> n, max |-> max]
\* panic!, unwrap on Err, unreachable!: the call does not return
Panic == [tag |-> "Panic"]

-----------------------------------------------------------------------------
(* Native -> Uint                                                          *)

\* try_from_u64 with `value >= Self::MASK` for `value > Self::MASK`
try_from_u64_ge(BITS, value) ==
    LET LIMBS == nlimbs(BITS)
    IN  IF LIMBS \in {0, 1} /\ ~Gt(MASK(BITS), value)
        THEN ValueTooLarge(BITS, from_limbs([i \in 1..LIMBS |-> value \cap MASK(BITS)]))
        ELSE IF LIMBS = 0
        THEN Ok(ZERO(BITS))
        ELSE Ok(from_limbs([i \in 1..LIMBS |-> IF i = 1 THEN value ELSE {}]))

\* TryFrom<u64> for Uint
try_from_u64(BITS, value) ==
    LET LIMBS == nlimbs(BITS)
    IN  IF LIMBS \in {0, 1} /\ Gt(value, MASK(BITS))
        THEN ValueTooLarge(BITS, from_limbs([i \in 1..LIMBS |-> value \cap MASK(BITS)]))
        ELSE IF LIMBS = 0
        THEN Ok(ZERO(BITS))
        ELSE Ok(from_limbs([i \in 1..LIMBS |-> IF i = 1 THEN value ELSE {}]))

\* try_from_u128 without the `.and_then(|n| Err(..))` of the LIMBS < 2 branch:
\* the low half alone decides
try_from_u128_low_half(BITS, value) ==
    LET LIMBS == nlimbs(BITS)
        lo == Low(value, 64)
        hi == Shr(value, 64)
    IN  IF Le(value, Ones(64))
        THEN try_from_u64(BITS, lo)
        ELSE IF LIMBS < 2
        THEN try_from_u64(BITS, lo)
        ELSE IF LIMBS = 2 /\ Gt(hi, MASK(BITS))
        THEN ValueTooLarge(BITS,
                 from_limbs([i \in 1..LIMBS |-> IF i = 1 THEN lo ELSE hi \cap MASK(BITS)]))
        ELSE Ok(from_limbs([i \in 1..LIMBS |->
                 IF i = 1 THEN lo ELSE IF i = 2 THEN hi ELSE {}]))

\* TryFrom<u128> for Uint
try_from_u128(BITS, value) ==
    LET LIMBS == nlimbs(BITS)
        lo == Low(value, 64)
        hi == Shr(value, 64)
    IN  IF Le(value, Ones(64))
        THEN try_from_u64(BITS, lo)
        ELSE IF LIMBS < 2
        THEN LET r == try_from_u64(BITS, lo)
             IN  IF r.tag = "Ok" THEN ValueTooLarge(BITS, r.val) ELSE r
        ELSE IF LIMBS = 2 /\ Gt(hi, MASK(BITS))
        THEN ValueTooLarge(BITS,
                 from_limbs([i \in 1..LIMBS |-> IF i = 1 THEN lo ELSE hi \cap MASK(BITS)]))
        ELSE Ok(from_limbs([i \in 1..LIMBS |->
                 IF i = 1 THEN lo ELSE IF i = 2 THEN hi ELSE {}]))

\* the native integer types: bit width and signedness
IntTypes ==
    {"bool", "u8", "u16", "u32", "u64", "usize", "u128",
     "i8", "i16", "i32", "i64", "isize", "i128"}

TypeBits(ty) ==
    CASE ty = "bool" -> 1
      [] ty \in {"u8", "i8"} -> 8
      [] ty \in {"u16", "i16"} -> 16
      [] ty \in {"u32", "i32"} -> 32
      [] ty \in {"u64", "i64", "usize", "isize"} -> 64
      [] ty \in {"u128", "i128"} -> 128

IsSigned(ty) == ty \in {"i8", "i16", "i32", "i64", "isize", "i128"}

\* impl_from_unsigned_int!: value as u64 (zero extension), then the u64 rule
try_from_unsigned_int(BITS, ty, value) ==
    IF ty = "u128" THEN try_from_u128(BITS, value) ELSE try_from_u64(BITS, value)

\* value.is_negative() on the two's complement pattern of a signed type
is_negative(ty, value) == (TypeBits(ty) - 1) \in value

\* impl_from_signed_int! without the `value.is_negative()` test
try_from_signed_int_unsigned(BITS, ty, value) ==
    try_from_unsigned_int(BITS, IF ty = "i128" THEN "u128" ELSE "u64", value)

\* impl_from_signed_int!: `value as $uint` keeps the bit pattern
try_from_signed_int(BITS, ty, value) ==
    LET uty == IF ty = "i128" THEN "u128" ELSE "u64"
        r == try_from_unsigned_int(BITS, uty, value)
    IN  IF is_negative(ty, value)
        THEN IF r.tag \in {"Ok", "ValueTooLarge"}
             THEN ValueNegative(BITS, r.val)
             ELSE Panic
        ELSE r

\* Uint::from at T = u64, as TryFrom<f64> calls it: the value, or a panic
from_u64(BITS, value) ==
    LET r == try_from_u64(BITS, value)
    IN  IF r.tag = "Ok" THEN r ELSE Panic

\* f64 fields of a bit pattern
sign_bit == U64_BITS - 1
significand_bits == 52
exponent_bias == 1023

f64_exp_field(rep) == BitsInt(Shr(rep \ {sign_bit}, significand_bits))
f64_frac(rep) == Low(rep, significand_bits)
f64_is_nan(rep) == f64_exp_field(rep) = 2 * exponent_bias + 1 /\ f64_frac(rep) # {}

\* the float comparison `value < 0.5`: false on NaN, true on every other
\* negative value (-0.0 included) and on positive values with exponent < -1
f64_lt_half(rep) ==
    /\ ~f64_is_nan(rep)
    /\ \/ sign_bit \in rep
       \/ f64_exp_field(rep) < exponent_bias - 1

\* TryFrom<f64> for Uint
try_from_f64(BITS, value) ==
    LET fixint_min == ZERO(BITS)
        fixint_max == MAX(BITS)
        fixint_bits == BITS
        fixint_unsigned == (fixint_min = ZERO(BITS))
        a_rep == value
        a_abs == a_rep \ {sign_bit}
        sign == IF a_rep \cap {sign_bit} = {} THEN "Positive" ELSE "Negative"
        exponent0 == BitsInt(Shr(a_abs, significand_bits))
        significand == (a_abs \cap Dec(u64_shl({0}, significand_bits)))
                           \cup u64_shl({0}, significand_bits)
        exponent == exponent0 - exponent_bias
    IN  IF f64_lt_half(value)
        THEN Ok(ZERO(BITS))
        ELSE IF exponent0 < exponent_bias \/ (fixint_unsigned /\ sign = "Negative")
        THEN ValueNegative(BITS, fixint_min)
        ELSE IF exponent >= fixint_bits
        THEN IF sign = "Positive"
             THEN ValueTooLarge(BITS, fixint_max)
             ELSE ValueNegative(BITS, fixint_min)
        ELSE IF exponent < significand_bits
        THEN LET shift == significand_bits - exponent
                 r0 == Shr(significand, shift)
                 remainder == significand \cap Dec(u64_shl({0}, shift))
                 halfway == u64_shl({0}, shift - 1)
                 r == IF Gt(remainder, halfway) \/ (remainder = halfway /\ 0 \in r0)
                      THEN u64_wrapping_add1(r0)
                      ELSE r0
             IN  from_u64(BITS, r)
        ELSE LET q == from_u64(BITS, significand)
             IN  IF q = Panic THEN Panic
                 ELSE Ok(uint_shl(BITS, q.val, exponent - significand_bits))

\* uint_try_from for a Uint source with the overflow flag ignored
uint_try_from_uint_unchecked(BITS, value) ==
    Ok(overflowing_from_limbs_slice(BITS, value).n)

\* UintTryFrom<Uint<BITS_SRC, LIMBS_SRC>> for Uint<BITS, LIMBS>
uint_try_from_uint(BITS, value) ==
    LET r == overflowing_from_limbs_slice(BITS, value)
    IN  IF r.overflow THEN ValueTooLarge(BITS, r.n) ELSE Ok(r.n)

\* UintTryFrom<T>: the blanket implementation over TryFrom<T>, and the
\* implementation for T = Uint.  A source is [kind, ty, val] with val the
\* bit pattern of a native integer or of an f64, or the limbs of a Uint
uint_try_from(BITS, value) ==
    CASE value.kind = "int" ->
            IF IsSigned(value.ty)
            THEN try_from_signed_int(BITS, value.ty, value.val)
            ELSE try_from_unsigned_int(BITS, value.ty, value.val)
      [] value.kind = "f64" -> try_from_f64(BITS, value.val)
      [] value.kind = "uint" -> uint_try_from_uint(BITS, value.val)

\* Uint::from: the value, or a panic attributed to the call site
from(BITS, value) ==
    LET r == uint_try_from(BITS, value)
    IN  IF r.tag = "Ok" THEN r ELSE Panic

\* Uint::saturating_from
saturating_from(BITS, value) ==
    LET r == uint_try_from(BITS, value)
    IN  CASE r.tag = "Ok" -> r
          [] r.tag = "ValueTooLarge" -> Ok(MAX(BITS))
          [] r.tag \in {"ValueNegative", "NotANumber"} -> Ok(ZERO(BITS))
          [] r.tag = "Panic" -> Panic

\* Uint::wrapping_from
wrapping_from(BITS, value) ==
    LET r == uint_try_from(BITS, value)
    IN  CASE r.tag \in {"Ok", "ValueTooLarge", "ValueNegative"} -> Ok(r.val)
          [] r.tag = "NotANumber" -> Ok(ZERO(BITS))
          [] r.tag = "Panic" -> Panic

\* Uint::const_from_u64 without the range test
const_from_u64_unchecked(BITS, x) ==
    from_limbs([i \in 1..nlimbs(BITS) |-> IF i = 1 THEN x ELSE {}])

\* Uint::const_from_u64
const_from_u64(BITS, x) ==
    IF BITS = 0 \/ (BITS < 64 /\ ~Gt(u64_shl({0}, BITS), x))
    THEN MAX(BITS)
    ELSE from_limbs([i \in 1..nlimbs(BITS) |-> IF i = 1 THEN x ELSE {}])

-----------------------------------------------------------------------------
(* Uint -> native                                                          *)

\* Uint::limbs_gt: is self larger than 64 * n bits
limbs_gt(BITS, limbs, n) ==
    IF nlimbs(BITS) < n THEN FALSE
    ELSE IF BITS <= 512
    THEN UNION {limbs[i] : i \in (n + 1)..Len(limbs)} # {}
    ELSE bit_len(limbs) > 64 * n

gt_u64_max(BITS, limbs) == limbs_gt(BITS, limbs, 1)

gt_u128_max(BITS, limbs) == limbs_gt(BITS, limbs, 2)

\* T::MAX as a bit pattern
TypeMax(ty) == IF IsSigned(ty) THEN Ones(TypeBits(ty) - 1) ELSE Ones(TypeBits(ty))

\* `x as T` for a wider unsigned x: truncation to the bits of T
as_type(ty, x) == Low(x, TypeBits(ty))

\* TryFrom<&Uint> for bool
try_from_uint_bool(BITS, limbs) ==
    IF BITS = 0 THEN Ok({})
    ELSE IF gt_u64_max(BITS, limbs) \/ Gt(limbs[1], {0})
    THEN Overflow(BITS, limbs[1] \cap {0}, {0})
    ELSE Ok(IF limbs[1] # {} THEN {0} ELSE {})

\* to_int! without the `value.gt_u64_max()` test: only limb 0 is looked at
try_from_uint_int_limb0(ty, BITS, limbs) ==
    IF BITS = 0 THEN Ok({})
    ELSE IF Gt(limbs[1], TypeMax(ty))
    THEN Overflow(BITS, as_type(ty, limbs[1]), TypeMax(ty))
    ELSE Ok(as_type(ty, limbs[1]))

\* to_int!: TryFrom<&Uint> for i8 u8 i16 u16 i32 u32 i64 u64 isize usize
try_from_uint_int(ty, BITS, limbs) ==
    IF BITS = 0 THEN Ok({})
    ELSE IF gt_u64_max(BITS, limbs) \/ Gt(limbs[1], TypeMax(ty))
    THEN Overflow(BITS, as_type(ty, limbs[1]), TypeMax(ty))
    ELSE Ok(as_type(ty, limbs[1]))

\* value.as_double_words()[0].get(): the low 128 bits
double_word0(limbs) == limbs[1] \cup Shl(limbs[2], 64)

\* TryFrom<&Uint> for i128
try_from_uint_i128(BITS, limbs) ==
    IF BITS <= 64
    THEN LET r == try_from_uint_int("u64", BITS, limbs)
         IN  IF r.tag = "Ok" THEN r ELSE Panic
    ELSE LET result == double_word0(limbs)
         IN  IF gt_u128_max(BITS, limbs) \/ Gt(result, TypeMax("i128"))
             THEN Overflow(BITS, as_type("i128", result), TypeMax("i128"))
             ELSE Ok(as_type("i128", result))

\* TryFrom<&Uint> for u128
try_from_uint_u128(BITS, limbs) ==
    IF BITS <= 64
    THEN LET r == try_from_uint_int("u64", BITS, limbs)
         IN  IF r.tag = "Ok" THEN r ELSE Panic
    ELSE LET result == double_word0(limbs)
         IN  IF gt_u128_max(BITS, limbs)
             THEN Overflow(BITS, result, TypeMax("u128"))
             ELSE Ok(result)

\* UintTryTo<Uint<BITS_DST, LIMBS_DST>> for Uint<BITS, LIMBS>
uint_try_to_uint(BITS, limbs, BITS_DST) ==
    LET r == overflowing_from_limbs_slice(BITS_DST, limbs)
    IN  IF r.overflow THEN Overflow(BITS_DST, r.n, MAX(BITS_DST)) ELSE Ok(r.n)

\* UintTryTo<T>.  A destination is [kind |-> "int", ty] or
\* [kind |-> "uint", bits]
uint_try_to(BITS, limbs, T) ==
    CASE T.kind = "uint" -> uint_try_to_uint(BITS, limbs, T.bits)
      [] T.kind = "int" /\ T.ty = "bool" -> try_from_uint_bool(BITS, limbs)
      [] T.kind = "int" /\ T.ty = "i128" -> try_from_uint_i128(BITS, limbs)
      [] T.kind = "int" /\ T.ty = "u128" -> try_from_uint_u128(BITS, limbs)
      [] OTHER -> try_from_uint_int(T.ty, BITS, limbs)

\* Uint::to: expect("Uint conversion error")
to(BITS, limbs, T) ==
    LET r == uint_try_to(BITS, limbs, T)
    IN  IF r.tag = "Ok" THEN r ELSE Panic

\* Uint::wrapping_to
wrapping_to(BITS, limbs, T) ==
    LET r == uint_try_to(BITS, limbs, T)
    IN  IF r.tag = "Panic" THEN Panic ELSE Ok(r.val)

\* Uint::saturating_to
saturating_to(BITS, limbs, T) ==
    LET r == uint_try_to(BITS, limbs, T)
    IN  CASE r.tag = "Ok" -> r
          [] r.tag = "Overflow" -> Ok(r.max)
          [] r.tag = "Panic" -> Panic

-----------------------------------------------------------------------------
(* The bit-exact f64 encoder.                                              *)

\* the final combination written with '|' in place of '+'
u64_or(x, y) == x \cup y

RECURSIVE u64_add(_, _)
\* x + y mod 2^64, by carry propagation
u64_add(x, y) ==
    IF y = {} THEN x
    ELSE u64_add((x \cup y) \ (x \cap y), u64_shl(x \cap y, 1))

RECURSIVE u64_sub(_, _)
\* x - y mod 2^64, by borrow propagation
u64_sub(x, y) ==
    IF y = {} THEN x
    ELSE u64_sub((x \cup y) \ (x \cap y), u64_shl(y \ x, 1))

\* the +infinity pattern 0x7FF0_0000_0000_0000
F64_INFINITY_BITS == Shl(Ones(11), significand_bits)

\* the increment with ties rounded up: the guard bit alone
round_increment_half_up(a, b) == Shr(b, 63)

\* the branchless tie-to-even increment: (b - ((b >> 63) & !a)) >> 63
round_increment(a, b) == Shr(u64_sub(b, Shr(b, 63) \cap u64_not(a)), 63)

\* Uint::to_f64_bits
to_f64_bits(BITS, self) ==
    LET n == leading_zeros(BITS, self)
        y == uint_shl(BITS, self, n)
        e == (1021 + BITS) - n
        a == IF BITS >= 53
             THEN uint_shr(BITS, y, BITS - 53)[1]
             ELSE u64_shl(y[1], 53 - BITS)
        b == IF BITS > 53
             THEN LET r == BITS - 53
                      one == ONE(BITS)
                      tail_mask == uint_sub_one(BITS, uint_shl(BITS, one, r))
                      tail == uint_and(y, tail_mask)
                      guard == IF r > 0
                               THEN uint_shr(BITS, tail, r - 1)[1] \cap {0}
                               ELSE {}
                      sticky == IF r > 1
                                THEN LET low_mask ==
                                             uint_sub_one(BITS, uint_shl(BITS, one, r - 1))
                                     IN  ~is_zero(uint_and(tail, low_mask))
                                ELSE FALSE
                  IN  u64_shl(guard, 63) \cup (IF sticky THEN {0} ELSE {})
             ELSE {}
        m == u64_add(a, round_increment(a, b))
    IN  IF is_zero(self) THEN {}
        ELSE IF e >= 2047 THEN F64_INFINITY_BITS
        ELSE u64_add(u64_shl(IntBits(e), 52), m)

-----------------------------------------------------------------------------
(* The inputs.                                                             *)

\* words below 2^n: a small number a placed at a probed position s, with or
\* without all ones below it; the numbers 0..MaxSmall; and the complements
\* of all these within n bits
Patterns(n, probes) ==
    LET base == {Low(Shl(IntBits(a), s) \cup (IF f THEN Ones(s) ELSE {}), n) :
                   a \in 0..MaxMant, s \in {q \in probes : q >= 0}, f \in BOOLEAN}
                 \cup {Low(IntBits(k), n) : k \in 0..MaxSmall}
    IN  base \cup {Ones(n) \ p : p \in base}

\* bit positions probed in an n-bit word: the low end, just below 2^8, at
\* 2^63 (a = 1 with ones below is u64::MAX, a = 2 is 2^64), and the top
Probes(n) == {0, 6, 63, n - 2}

\* a native integer: its type and its bit pattern (two's complement when signed)
IntSources ==
    UNION {{[kind |-> "int", ty |-> ty, val |-> p] :
               p \in Patterns(TypeBits(ty), Probes(TypeBits(ty)))} : ty \in IntTypes}

\* widths of the Uint destinations of the conversions into a Uint
Widths == {0, 1, 2, 7, 8, 16, 63, 64, 65, 128, 129, 1100}

\* widths of the Uint operands
SrcWidths == {0, 1, 8, 63, 64, 65, 128, 129, 513}

\* 18446744073711518810 = 2^64 + 1967194, the operand of test_u65
U65_TEST == {64} \cup IntBits(1967194)

\* a Uint<bits> operand satisfies the mask invariant: its value is below 2^bits
UintSources ==
    UNION {{[kind |-> "uint", bits |-> w, val |-> ToLimbs(p, nlimbs(w))] :
               p \in Patterns(w, Probes(w))} : w \in SrcWidths}
    \cup {[kind |-> "uint", bits |-> 65, val |-> ToLimbs(U65_TEST, 2)]}

\* the f64 with the given sign, exponent field and fraction
F64Pattern(neg, expf, frac) ==
    frac \cup Shl(IntBits(expf), significand_bits) \cup (IF neg THEN {sign_bit} ELSE {})

\* bit length of a number below 2^30
IntLen(k) == IF k = 0 THEN 0 ELSE 1 + (CHOOSE i \in IntBits(k) : \A j \in IntBits(k) : j <= i)

\* the f64 k / 8: exact, with three fraction bits
F64Eighths(neg, k) ==
    IF k = 0 THEN F64Pattern(neg, 0, {})
    ELSE F64Pattern(neg, exponent_bias + IntLen(k) - 4,
                    Shl(IntBits(k) \ {IntLen(k) - 1}, significand_bits - (IntLen(k) - 1)))

\* exponent fields probed: zero and subnormals, 2^-2, 2^-1, 2^0, 2^6, 2^7,
\* 2^51 .. 2^53, 2^63, 2^64, 2^128, 2^1023, and infinity / NaN
ExpFields == {0, 1, 1021, 1022, 1023, 1029, 1030, 1074, 1075, 1076,
              1086, 1087, 1151, 2046, 2047}

\* fractions probed: the j top bits set (j = e + 1 at exponent e is the tie
\* just below 2^(e+1)), the lowest bit, and 123.5 and 123.499
Fractions ==
    {Ones(52) \ Ones(52 - j) : j \in {0, 1, 2, 7, 8, 52}}
    \cup {{0}, {51, 50, 49, 47, 46, 45}}

\* 123.499_f64 = 0x405EDFEF9DB22D0E
F64_123_499 ==
    {62, 54, 52, 51, 50, 49, 47, 46, 44, 43, 42, 41, 40, 39, 38, 37, 35, 34, 33, 32,
     31, 28, 27, 26, 24, 23, 21, 20, 17, 13, 11, 10, 8, 3, 2, 1}

F64Sources ==
    {[kind |-> "f64", val |-> p] :
        p \in {F64Eighths(neg, k) : neg \in BOOLEAN, k \in 0..(8 * MaxSmall)}
              \cup {F64Pattern(neg, e, f) : neg \in BOOLEAN, e \in ExpFields, f \in Fractions}
              \cup {F64_123_499}}

\* widths of the Uint destinations of the conversions out of a Uint
DstWidths == {0, 1, 8, 64, 128}

\* destination types of the conversions out of a Uint
Destinations ==
    {[kind |-> "int", ty |-> ty] : ty \in IntTypes}
    \cup {[kind |-> "uint", bits |-> w] : w \in DstWidths}

\* operands of the f64 encoder.  Widths, and the bit lengths probed in a
\* Uint of width w
EncWidths == {0, 1, 2, 52, 53, 54, 55, 64, 65, 128, 1024, 1025, 1026, 1100}

EncLens(w) == {l \in {1, 2, 53, 54, 55, 64, 65, 1023, 1024, 1025, 1026, w - 1, w} :
                  1 <= l /\ l <= w}

\* numbers of bit length l: the leading bit, a small number a at the two
\* bits below the 53 kept ones, with or without all kept bits set, with or
\* without the lowest bit
EncValues(l) ==
    {{i \in {l - 1}
                    \cup {j + l - 55 : j \in IntBits(a)}
                    \cup (IF k THEN (l - 52)..(l - 2) ELSE {})
                    \cup (IF z THEN {0} ELSE {}) : i >= 0 /\ i < l} :
        a \in 0..MaxMant, k \in BOOLEAN, z \in BOOLEAN}

EncSources ==
    UNION {{[kind |-> "uint", bits |-> w, val |-> ToLimbs(p, nlimbs(w))] :
               p \in UNION {EncValues(l) : l \in EncLens(w)}
                     \cup {Low(IntBits(k), w) : k \in 0..MaxSmall}} : w \in EncWidths}

-----------------------------------------------------------------------------
(* The state machine: one call of one entry point on one input, and the    *)
(* conversion back of a value that Uint::from returned.                    *)

NoMid == [kind |-> "none"]
NoDst == [kind |-> "none"]
NoOut == [tag |-> "None"]

InitRest ==
    /\ mid = NoMid
    /\ dst = NoDst
    /\ op = "init"
    /\ out = NoOut

Init ==
    /\ \/ src \in IntSources
       \/ src \in F64Sources
       \/ src \in UintSources
    /\ InitRest

\* Self::uint_try_from(value) / Self::try_from(value)
CallUintTryFrom ==
    /\ op = "init"
    /\ \E BITS \in Widths :
          /\ dst' = [kind |-> "uint", bits |-> BITS]
          /\ out' = uint_try_from(BITS, src)
    /\ op' = "uint_try_from"
    /\ UNCHANGED <<src, mid>>

\* Self::from(value)
CallFrom ==
    /\ op = "init"
    /\ \E BITS \in Widths :
          /\ dst' = [kind |-> "uint", bits |-> BITS]
          /\ out' = from(BITS, src)
    /\ op' = "from"
    /\ UNCHANGED <<src, mid>>

\* Self::saturating_from(value)
CallSaturatingFrom ==
    /\ op = "init"
    /\ \E BITS \in Widths :
          /\ dst' = [kind |-> "uint", bits |-> BITS]
          /\ out' = saturating_from(BITS, src)
    /\ op' = "saturating_from"
    /\ UNCHANGED <<src, mid>>

\* Self::wrapping_from(value)
CallWrappingFrom ==
    /\ op = "init"
    /\ \E BITS \in Widths :
          /\ dst' = [kind |-> "uint", bits |-> BITS]
          /\ out' = wrapping_from(BITS, src)
    /\ op' = "wrapping_from"
    /\ UNCHANGED <<src, mid>>

\* Self::const_from_u64(x)
CallConstFromU64 ==
    /\ op = "init"
    /\ src.kind = "int" /\ src.ty = "u64"
    /\ \E BITS \in Widths :
          /\ dst' = [kind |-> "uint", bits |-> BITS]
          /\ out' = Ok(const_from_u64(BITS, src.val))
    /\ op' = "const_from_u64"
    /\ UNCHANGED <<src, mid>>

\* self.uint_try_to() / T::try_from(self)
CallUintTryTo ==
    /\ op = "init"
    /\ src.kind = "uint"
    /\ \E T \in Destinations :
          /\ dst' = T
          /\ out' = uint_try_to(src.bits, src.val, T)
    /\ op' = "uint_try_to"
    /\ UNCHANGED <<src, mid>>

\* self.to::<T>()
CallTo ==
    /\ op = "init"
    /\ src.kind = "uint"
    /\ \E T \in Destinations :
          /\ dst' = T
          /\ out' = to(src.bits, src.val, T)
    /\ op' = "to"
    /\ UNCHANGED <<src, mid>>

\* Uint::from(x).to::<T>() for x of the native type T: the second step, on
\* the Uint that from returned
CallToBack ==
    /\ op = "from"
    /\ src.kind = "int"
    /\ out.tag = "Ok"
    /\ mid' = [kind |-> "uint", bits |-> dst.bits, val |-> out.val]
    /\ dst' = [kind |-> "int", ty |-> src.ty]
    /\ out' = to(dst.bits, out.val, [kind |-> "int", ty |-> src.ty])
    /\ op' = "from.to"
    /\ UNCHANGED src

\* self.wrapping_to::<T>()
CallWrappingTo ==
    /\ op = "init"
    /\ src.kind = "uint"
    /\ \E T \in Destinations :
          /\ dst' = T
          /\ out' = wrapping_to(src.bits, src.val, T)
    /\ op' = "wrapping_to"
    /\ UNCHANGED <<src, mid>>

\* self.saturating_to::<T>()
CallSaturatingTo ==
    /\ op = "init"
    /\ src.kind = "uint"
    /\ \E T \in Destinations :
          /\ dst' = T
          /\ out' = saturating_to(src.bits, src.val, T)
    /\ op' = "saturating_to"
    /\ UNCHANGED <<src, mid>>

\* self.to_f64_bits()
CallToF64Bits ==
    /\ op = "init"
    /\ src.kind = "uint"
    /\ dst' = [kind |-> "f64"]
    /\ out' = Ok(to_f64_bits(src.bits, src.val))
    /\ op' = "to_f64_bits"
    /\ UNCHANGED <<src, mid>>

\* Uint::try_from(v).unwrap().to_f64_bits() for an f64 v: the second step, on
\* the Uint that try_from returned
CallToF64BitsBack ==
    /\ op = "uint_try_from"
    /\ src.kind = "f64"
    /\ out.tag = "Ok"
    /\ mid' = [kind |-> "uint", bits |-> dst.bits, val |-> out.val]
    /\ dst' = [kind |-> "f64"]
    /\ out' = Ok(to_f64_bits(dst.bits, out.val))
    /\ op' = "uint_try_from.to_f64_bits"
    /\ UNCHANGED src

Next ==
    \/ CallUintTryFrom
    \/ CallFrom
    \/ CallSaturatingFrom
    \/ CallWrappingFrom
    \/ CallConstFromU64
    \/ CallUintTryTo
    \/ CallTo
    \/ CallToBack
    \/ CallWrappingTo
    \/ CallSaturatingTo
    \/ CallToF64Bits
    \/ CallToF64BitsBack

Spec == Init /\ [][Next]_vars

\* the f64 encoder on its own operands
EncInit ==
    /\ src \in EncSources
    /\ InitRest

EncNext == CallToF64Bits

EncSpec == EncInit /\ [][EncNext]_vars

-----------------------------------------------------------------------------
(* The claims.  x < 2^W is Fits(x, W); x mod 2^W is Low(x, W).             *)

Fits(x, W) == \A b \in x : b < W

\* out is the Uint<W> with the number x
IsUint(r, W, x) == Len(r.val) = nlimbs(W) /\ Value(r.val) = x

\* C1: try_from of an unsigned native x into W bits is Ok(x) exactly when
\* x < 2^W, and ValueTooLarge(W, x mod 2^W) otherwise
C1_TryFromUnsigned ==
    (op = "uint_try_from" /\ src.kind = "int" /\ ~IsSigned(src.ty)) =>
        IF Fits(src.val, dst.bits)
        THEN out.tag = "Ok" /\ IsUint(out, dst.bits, src.val)
        ELSE /\ out.tag = "ValueTooLarge"
             /\ out.bits = dst.bits
             /\ IsUint(out, dst.bits, Low(src.val, dst.bits))

\* (u64::MAX as u128) + 1 into 64 bits is ValueTooLarge(64, ZERO)
C1_Witness ==
    /\ op = "uint_try_from"
    /\ src = [kind |-> "int", ty |-> "u128", val |-> {64}]
    /\ dst.bits = 64
    /\ out = ValueTooLarge(64, ZERO(64))

\* the number (2^W + x) mod 2^W for the native integer s.  A negative x of an
\* n-bit type has the pattern p = 2^n + x, so 2^W + x = p + (2^W - 2^n): the
\* pattern with the bits n..W-1 set when W > n, and p mod 2^W otherwise
WrappedValue(s, W) ==
    IF IsSigned(s.ty) /\ is_negative(s.ty, s.val)
    THEN Low(s.val \cup (TypeBits(s.ty)..(W - 1)), W)
    ELSE Low(s.val, W)

\* C2: wrapping_from of a native integer x into W bits is x mod 2^W, and
\* (2^W + x) mod 2^W for negative x, also when W exceeds the width of x's type
C2_WrappingLaw ==
    (op = "wrapping_from" /\ src.kind = "int") =>
        out.tag = "Ok" /\ IsUint(out, dst.bits, WrappedValue(src, dst.bits))

ToUintErrors == {"ValueTooLarge", "ValueNegative", "NotANumber"}

\* C3: the fallible conversions and the saturating and wrapping wrappers
\* always return; from and to panic exactly when the fallible conversion
\* returns an error
C3_OnlyStrictAborts ==
    /\ op \in {"uint_try_from", "saturating_from", "wrapping_from",
               "uint_try_to", "saturating_to", "wrapping_to"} => out # Panic
    /\ op = "from" =>
          (out = Panic <=> uint_try_from(dst.bits, src).tag \in ToUintErrors)
    /\ op = "to" =>
          (out = Panic <=> uint_try_to(src.bits, src.val, dst).tag = "Overflow")

F64Finite(rep) == f64_exp_field(rep) # 2 * exponent_bias + 1

\* the integer nearest to the finite f64 |v|, ties to the even one.  |v| is
\* sig * 2^k with sig the 53-bit significand (52-bit for subnormals)
RoundTiesEven(rep) ==
    LET expf == f64_exp_field(rep)
        sig == IF expf = 0 THEN f64_frac(rep) ELSE f64_frac(rep) \cup {significand_bits}
        k == (IF expf = 0 THEN 1 ELSE expf) - (exponent_bias + significand_bits)
        q == Shr(sig, -k)
        rem == Low(sig, -k)
        half == {-k - 1}
    IN  IF k >= 0 THEN Shl(sig, k)
        ELSE IF Gt(rem, half) \/ (rem = half /\ 0 \in q) THEN Inc(q)
        ELSE q

\* C4: try_from of a finite f64 v >= 0 whose nearest integer r (ties to
\* even) is below 2^W is Ok(r)
C4_F64NearestEven ==
    (/\ op = "uint_try_from" /\ src.kind = "f64"
     /\ F64Finite(src.val)
     /\ sign_bit \notin src.val
     /\ Fits(RoundTiesEven(src.val), dst.bits)) =>
        out.tag = "Ok" /\ IsUint(out, dst.bits, RoundTiesEven(src.val))

\* C5: on an f64 NaN the fallible conversion reports NotANumber(W), and
\* saturating_from and wrapping_from return ZERO
C5_NaNToZero ==
    (src.kind = "f64" /\ f64_is_nan(src.val)) =>
        /\ op = "uint_try_from" => out = NotANumber(dst.bits)
        /\ op \in {"saturating_from", "wrapping_from"} => out = Ok(ZERO(dst.bits))

\* exponent field all ones and a nonzero mantissa
IsNaNPattern(bits) == f64_is_nan(bits)

\* C6: to_f64_bits of a value >= 2^1024 is the +infinity pattern: never a
\* NaN pattern, never one with the sign bit set
C6_InfinityBeyondRange ==
    (op = "to_f64_bits" /\ bit_len(src.val) >= 1025) =>
        /\ out.val = F64_INFINITY_BITS
        /\ ~IsNaNPattern(out.val)
        /\ sign_bit \notin out.val

\* the binary64 pattern of the number v rounded to nearest, ties to even: of
\* a v with L bits the top 53 are kept (q), the rest (rem) compared with half
\* a unit of the last kept place; a carry out of q raises the exponent
NearestF64Bits(v) ==
    LET L == bit_len(ToLimbs(v, 18))
        d == L - 53
        q0 == Shr(v, d)
        rem == Low(v, d)
        half == {d - 1}
        q == IF d > 0 /\ (Gt(rem, half) \/ (rem = half /\ 0 \in q0)) THEN Inc(q0) ELSE q0
        carry == 53 \in q
        expf == exponent_bias + (L - 1) + (IF carry THEN 1 ELSE 0)
        frac == IF L <= 53 THEN Shl(v \ {L - 1}, 53 - L)
                ELSE IF carry THEN {}
                ELSE q \ {52}
    IN  IF v = {} THEN {}
        ELSE IF expf >= 2 * exponent_bias + 1 THEN F64_INFINITY_BITS
        ELSE frac \cup Shl(IntBits(expf), significand_bits)

FitsType(v, ty) == Le(v, TypeMax(ty))

\* C8: a Uint<W> value v converts to the native integer type T as Ok(v)
\* exactly when v <= T::MAX and as Overflow(W, v mod 2^bits(T), T::MAX)
\* otherwise; wrapping_to gives v mod 2^bits(T), saturating_to min(v, T::MAX)
C8_ToNativeInt ==
    (src.kind = "uint" /\ mid = NoMid /\ dst.kind = "int" /\ dst.ty # "bool") =>
        LET v == Value(src.val)
            t == Low(v, TypeBits(dst.ty))
        IN  /\ op = "uint_try_to" =>
                  IF FitsType(v, dst.ty) THEN out = Ok(v)
                  ELSE out = Overflow(src.bits, t, TypeMax(dst.ty))
            /\ op = "wrapping_to" => out = Ok(t)
            /\ op = "saturating_to" =>
                  out = Ok(IF FitsType(v, dst.ty) THEN v ELSE TypeMax(dst.ty))

\* test_u65: 18446744073711518810 to u64 is Overflow(65, 1967194, u64::MAX)
C8_Witness ==
    /\ op = "uint_try_to"
    /\ src.kind = "uint" /\ src.bits = 65 /\ Value(src.val) = U65_TEST
    /\ dst = [kind |-> "int", ty |-> "u64"]
    /\ out = Overflow(65, IntBits(1967194), Ones(64))

\* every source limb beyond the destination is zero and the top copied limb
\* fits the destination mask
LimbsFit(limbs, Wd) ==
    /\ \A i \in (nlimbs(Wd) + 1)..Len(limbs) : limbs[i] = {}
    /\ (nlimbs(Wd) >= 1 /\ Len(limbs) >= nlimbs(Wd)) =>
           Le(limbs[nlimbs(Wd)], MASK(Wd))

\* C9: a Uint<Ws> value v converts to Uint<Wd> as Ok(v) exactly when
\* v < 2^Wd, which is when its limbs fit, and as ValueTooLarge(Wd, v mod 2^Wd)
\* otherwise; then saturating_from gives MAX and wrapping_from v mod 2^Wd
C9_CrossWidth ==
    (src.kind = "uint" /\ dst.kind = "uint") =>
        LET v == Value(src.val)
            Wd == dst.bits
        IN  /\ Fits(v, Wd) <=> LimbsFit(src.val, Wd)
            /\ op = "uint_try_from" =>
                  IF Fits(v, Wd) THEN out.tag = "Ok" /\ IsUint(out, Wd, v)
                  ELSE /\ out.tag = "ValueTooLarge" /\ out.bits = Wd
                       /\ IsUint(out, Wd, Low(v, Wd))
            /\ op = "saturating_from" =>
                  out = Ok(IF Fits(v, Wd) THEN ToLimbs(v, nlimbs(Wd)) ELSE MAX(Wd))
            /\ op = "wrapping_from" => out.tag = "Ok" /\ IsUint(out, Wd, Low(v, Wd))

\* a 65-bit source with only bit 64 set does not fit 64 bits: the limb beyond
\* the destination is nonzero, and the clamped value is ZERO
C9_Witness ==
    /\ op = "uint_try_from"
    /\ src.kind = "uint" /\ src.bits = 65 /\ Value(src.val) = {64}
    /\ dst.bits = 64
    /\ out = ValueTooLarge(64, ZERO(64))

\* x >= 0 for the native integer s
NonNegative(s) == ~(IsSigned(s.ty) /\ is_negative(s.ty, s.val))

\* C10: for a native integer x with 0 <= x < 2^W, Uint::<W>::from(x)
\* succeeds, and converting the result back with to::<T>() succeeds and
\* returns x
C10_IntRoundTrip ==
    (src.kind = "int" /\ NonNegative(src) /\ dst.kind # "none"
        /\ Fits(src.val, IF op = "from.to" THEN mid.bits ELSE dst.bits)) =>
        /\ op = "from" => out.tag = "Ok" /\ IsUint(out, dst.bits, src.val)
        /\ op = "from.to" => out = Ok(src.val)

\* i64::MAX through 63 bits and back
C10_Witness ==
    /\ op = "from.to"
    /\ src = [kind |-> "int", ty |-> "i64", val |-> Ones(63)]
    /\ mid.bits = 63
    /\ out = Ok(Ones(63))

\* C11: saturating_from of a native integer x into W bits is ZERO for a
\* negative x, MAX for x >= 2^W and x otherwise; try_from of a negative x is a
\* ValueNegative error at every width, so the unreachable!() arm is not taken
C11_SaturatingNative ==
    /\ (op = "saturating_from" /\ src.kind = "int") =>
          /\ out.tag = "Ok"
          /\ IF ~NonNegative(src) THEN out.val = ZERO(dst.bits)
             ELSE IF ~Fits(src.val, dst.bits) THEN out.val = MAX(dst.bits)
             ELSE IsUint(out, dst.bits, src.val)
    /\ (op = "uint_try_from" /\ src.kind = "int" /\ ~NonNegative(src)) =>
          out.tag = "ValueNegative" /\ out.bits = dst.bits

\* -1_i8 into 0 bits is ValueNegative(0, ZERO)
C11_Witness ==
    /\ op = "uint_try_from"
    /\ src = [kind |-> "int", ty |-> "i8", val |-> Ones(8)]
    /\ dst.bits = 0
    /\ out = ValueNegative(0, ZERO(0))

\* the f64 is `x as f64` for a non-negative integer x that the format holds
\* exactly: finite, sign clear, and zero or with no fraction bit below 2^0
IsExactInteger(rep) ==
    LET expf == f64_exp_field(rep)
        k == expf - (exponent_bias + significand_bits)
    IN  /\ F64Finite(rep)
        /\ ~(sign_bit \in rep)
        /\ \/ rep = {}
           \/ expf >= exponent_bias /\ (k >= 0 \/ Low(f64_frac(rep), -k) = {})

\* the integer x of such an f64: the 53-bit significand times 2^k
ExactInteger(rep) ==
    LET k == f64_exp_field(rep) - (exponent_bias + significand_bits)
        sig == f64_frac(rep) \cup {significand_bits}
    IN  IF rep = {} THEN {} ELSE IF k >= 0 THEN Shl(sig, k) ELSE Shr(sig, -k)

\* C12: for a non-negative integer x of at most 53 significant bits with
\* x < 2^W, try_from(x as f64) is Ok(x) at width W, and to_f64_bits of that
\* Uint is the bit pattern of the f64 again
C12_F64RoundTrip ==
    (/\ src.kind = "f64"
     /\ IsExactInteger(src.val)
     /\ op \in {"uint_try_from", "uint_try_from.to_f64_bits"}
     /\ Fits(ExactInteger(src.val),
             IF op = "uint_try_from" THEN dst.bits ELSE mid.bits)) =>
        /\ op = "uint_try_from" =>
              out.tag = "Ok" /\ IsUint(out, dst.bits, ExactInteger(src.val))
        /\ op = "uint_try_from.to_f64_bits" =>
              /\ IsUint(mid, mid.bits, ExactInteger(src.val))
              /\ out = Ok(src.val)

\* 2^63 + 2^62 as f64 (0x43E8000000000000) through 64 bits and back
C12_Witness ==
    /\ op = "uint_try_from.to_f64_bits"
    /\ src = [kind |-> "f64", val |-> F64Pattern(FALSE, 1086, {51})]
    /\ mid = [kind |-> "uint", bits |-> 64, val |-> <<{63, 62}>>]
    /\ out = Ok(F64Pattern(FALSE, 1086, {51}))

\* the f64 is at most -0.5: sign set, not NaN, exponent at least -1
\* (negative infinity included)
F64LeMinusHalf(rep) ==
    /\ sign_bit \in rep
    /\ ~f64_is_nan(rep)
    /\ f64_exp_field(rep) >= exponent_bias - 1

\* C13: for every f64 v <= -0.5, negative infinity included, try_from(v) is
\* the error ValueNegative(W, ZERO) at every width W, and from panics on it
C13_NegativeF64Rejected ==
    (src.kind = "f64" /\ F64LeMinusHalf(src.val)) =>
        /\ op = "uint_try_from" => out = ValueNegative(dst.bits, ZERO(dst.bits))
        /\ op = "from" => out = Panic

\* the maximum of a destination: T::MAX of a native type as a number,
\* Uint::MAX of a Uint as limbs
DestinationMax(T) == IF T.kind = "int" THEN TypeMax(T.ty) ELSE MAX(T.bits)

\* the truncation of a Uint to a destination: its low limb (two limbs for
\* the 128-bit types, one bit for bool) cut to the type's width, or its
\* limbs cut to the destination Uint's width
Truncated(limbs, T) ==
    IF T.kind = "int"
    THEN Low(Value(limbs), IF T.ty = "bool" THEN 1 ELSE TypeBits(T.ty))
    ELSE ToLimbs(Low(Value(limbs), T.bits), nlimbs(T.bits))

\* C14: an Overflow error of a failing Uint-to-T conversion carries the bit
\* width of the source Uint, the truncated value and the destination's
\* maximum, for T a native type and for T a Uint of another width
C14_OverflowFields ==
    (op = "uint_try_to" /\ out.tag = "Overflow") =>
        /\ out.bits = src.bits
        /\ out.val = Truncated(src.val, dst)
        /\ out.max = DestinationMax(dst)

\* limbs is a Uint<W>: LIMBS limbs, no bit at a position >= W
Masked(limbs, W) == Len(limbs) = nlimbs(W) /\ Fits(Value(limbs), W)

\* C15: every Uint that a conversion from a native integer or an f64 hands
\* back, as the Ok value or inside ValueTooLarge or ValueNegative, is below
\* 2^W for the destination width W, and so is the result of const_from_u64,
\* which is MAX when the input is not below 2^W
C15_MaskInvariant ==
    /\ (/\ op \in {"uint_try_from", "from", "saturating_from", "wrapping_from"}
        /\ src.kind \in {"int", "f64"}
        /\ out.tag \in {"Ok", "ValueTooLarge", "ValueNegative"}) =>
          Masked(out.val, dst.bits)
    /\ op = "const_from_u64" =>
          /\ Masked(out.val, dst.bits)
          /\ ~Fits(src.val, dst.bits) => out.val = MAX(dst.bits)

\* u64::MAX into 7 bits by const_from_u64 is MAX = 127
C15_Witness ==
    /\ op = "const_from_u64"
    /\ src = [kind |-> "int", ty |-> "u64", val |-> Ones(64)]
    /\ dst.bits = 7
    /\ out = Ok(<<Ones(7)>>)

=============================================================================
